---- MODULE Spec2Model ----
(***************************************************************************)
(* The incremental anomaly-detection worker of worker_procesamiento.py:    *)
(* the event table datos_proceso, the result table anomalies_detector,     *)
(* the watermark last_processed_datetime and the cycle of                  *)
(* AnomalyDetectionWorker.run / check_and_process / process_new_anomalies. *)
(*                                                                         *)
(* Timestamps are integers counting ticks of 1/TicksPerSecond second, so   *)
(* that a timestamp can carry a sub-second part (SQL Server DATETIME and   *)
(* datetime.now() both do) and the strftime('%Y-%m-%d %H:%M:%S') of the    *)
(* poll query is a real conversion.                                        *)
(*                                                                         *)
(* One action is one step of the worker between two accesses to the        *)
(* database; rows are inserted into datos_proceso by another process       *)
(* (write_training_data_to_sql.py) between any two such steps.             *)
(***************************************************************************)
EXTENDS Integers, Sequences, FiniteSets, TLC

\* ---------------------------------------------------------------- bounds
MaxTime == 3          \* timestamps of events are 1..MaxTime ticks
MaxInserts == 1       \* rows inserted into the event table while the worker runs
MaxIter == 2          \* iterations of the run loop

\* ------------------------------------------------------------- constants
TicksPerSecond == 3   \* resolution of a timestamp below the second kept by '%S'
None == -1            \* Python None / SQL NULL, of a number or a timestamp
NullText == "NULL"    \* SQL NULL of a VARCHAR

Times == 1..MaxTime

\* the now() - 24 h of initialize, at full precision: on a whole second, or
\* with a sub-second part
Lookbacks == {0, 2}

Row(t, v, x, f) ==
    [datetime |-> t, variable_name |-> v, value |-> x, source_file |-> f]

\* what the event table holds when the worker starts: nothing, one timestamp
\* with a repeated (datetime, variable_name), three timestamps, or one
\* variable only
InitialTables ==
    {<<>>,
     <<Row(1, "A", 10, "f1"), Row(1, "A", 99, "f1"), Row(1, "B", 5, "f1")>>,
     <<Row(1, "A", 10, "f1"), Row(2, "A", 99, "f1"), Row(3, "B", 5, "f1")>>,
     <<Row(1, "B", 5, "f1")>>}

\* the rows that arrive while the worker runs
Arrivals == {Row(t, "A", 10, "f1") : t \in Times}

\* the sets of models that can be on disk when the worker starts
Registries == {{}, {"A"}, {"A", "B"}}

\* ORDER BY variable_name compares strings
VarRank(v) == IF v = "A" THEN 1 ELSE 2

VARIABLES
    datos_proceso,            \* the event table, rows as ORDER BY datetime,
                              \* variable_name delivers them
    anomalies_detector,       \* the result table, rows in insertion (id) order
    models,                   \* variables with a trained model on disk
    pc,                       \* where the worker is
    last_processed_datetime,  \* self.last_processed_datetime
    total_processed,          \* self.total_processed
    total_anomalies,          \* self.total_anomalies
    iterations,               \* self.iterations
    df_long,                  \* process_new_anomalies: the batch polled
    results_to_write,         \* process_new_anomalies: the records to append
    n_datetimes,              \* process_new_anomalies: unique_datetimes
    processed,                \* run: what check_and_process returned last
    inserted,                 \* history: rows inserted since the worker started
    initial_watermark,        \* history: the watermark initialize set
    cycle_kind,               \* history: how the last cycle ended
    cycle_watermark,          \* history: the watermark when the last cycle began
    window,                   \* history: the batch the last cycle polled
    update_lost,              \* history: a write succeeded and the re-query after
                              \* it gave no row
    failed_vars,              \* history: the variables whose model call failed
                              \* in the last cycle
    persisted,                \* history: what the worker appended to the result
                              \* table, counted at the append
    step,                     \* the transformers alone: what has been applied
    events,                   \* the long rows given to convert_long_to_wide
    widened,                  \* convert_long_to_wide(events)
    widened_again,            \* convert_long_to_wide(events), a second run
    narrowed,                 \* transform_data_to_long_format(widened)
    raw,                      \* a record as detect_anomalies_multiple gives it
    clean,                    \* the record after the conversions for storage
    clean_again,              \* the conversions applied to clean
    stored,                   \* records appended to anomalies_detector by the
                              \* worker's cycle or by detect_from_sql.py
    model_out,                \* a record of the model, with or without a
                              \* source_file column
    attributed,               \* its source_file as process_new_anomalies writes it
    attributed_batch,         \* its source_file as detect_from_sql.py writes it
    program,                  \* the script whose table bootstrap runs
    catalog,                  \* the tables and the indexes of the database
    boots                     \* history: the runs of the bootstrap

prog == <<anomalies_detector, models, pc, last_processed_datetime,
          total_processed, total_anomalies, iterations, df_long, results_to_write,
          n_datetimes, processed>>

hist == <<initial_watermark, cycle_kind, cycle_watermark, window, update_lost>>

shape == <<events, widened, widened_again, narrowed>>

sani == <<raw, clean, clean_again, stored>>

prov == <<model_out, attributed, attributed_batch>>

boot == <<program, catalog, boots>>

pure == <<step, shape, sani, prov, boot>>

vars == <<datos_proceso, inserted, prog, hist, failed_vars, persisted, pure>>

\* ------------------------------------------------------------ SQL helpers
Range(s) == {s[i] : i \in DOMAIN s}

MaxOf(S) == CHOOSE x \in S : \A y \in S : y <= x

MinOf(S) == CHOOSE x \in S : \A y \in S : x <= y

\* strftime('%Y-%m-%d %H:%M:%S'): the text of a timestamp, cut at the second
Strftime(t) == t - (t % TicksPerSecond)

\* ORDER BY datetime, variable_name
KeyLE(a, b) ==
    \/ a.datetime < b.datetime
    \/ /\ a.datetime = b.datetime
       /\ VarRank(a.variable_name) <= VarRank(b.variable_name)

RECURSIVE InsertSorted(_, _)
InsertSorted(s, e) ==
    IF s = <<>> THEN <<e>>
    ELSE IF KeyLE(Head(s), e) THEN <<Head(s)>> \o InsertSorted(Tail(s), e)
    ELSE <<e>> \o s

\* rows with the same (datetime, variable_name) stay in id order
RECURSIVE OrderBy(_)
OrderBy(s) ==
    IF s = <<>> THEN <<>>
    ELSE InsertSorted(OrderBy(SubSeq(s, 1, Len(s) - 1)), s[Len(s)])

IsOrdered(s) == \A i \in 1..(Len(s) - 1) : KeyLE(s[i], s[i + 1])

\* SELECT ... WHERE datetime > '<since, cut at the second>' ORDER BY ...;
\* <<>> stands for both None and the empty frame, which the callers treat alike
get_new_data_from_sql(tbl, since) ==
    SelectSeq(OrderBy(tbl), LAMBDA e : e.datetime > Strftime(since))

\* the greatest datetime of the table rounded up to a whole second
MaxDatetimeRoundedUp(tbl) ==
    IF tbl = <<>>
    THEN None
    ELSE Strftime(MaxOf({e.datetime : e \in Range(tbl)}) + TicksPerSecond - 1)

\* SELECT MAX(datetime) FROM datos_proceso
MaxDatetime(tbl) ==
    IF tbl = <<>> THEN None ELSE MaxOf({e.datetime : e \in Range(tbl)})

\* SELECT MAX(ds) FROM anomalies_detector
get_last_processed_datetime(res) ==
    IF res = <<>> THEN None ELSE MaxOf({r.ds : r \in Range(res)})

\* ------------------------------------------------------ shape transformer
\* the last entry of the group taken in place of the first
LastOf(df, dt, v, f, null) ==
    LET idx == {i \in DOMAIN df : /\ df[i].datetime = dt
                                  /\ df[i].variable_name = v
                                  /\ df[i][f] # null}
    IN IF idx = {} THEN null ELSE df[MaxOf(idx)][f]

\* groupby(...).first(): the first non-null entry of field f among the rows
\* of df with this (datetime, variable_name), null when there is none
FirstOf(df, dt, v, f, null) ==
    LET idx == {i \in DOMAIN df : /\ df[i].datetime = dt
                                  /\ df[i].variable_name = v
                                  /\ df[i][f] # null}
    IN IF idx = {} THEN null ELSE df[MinOf(idx)][f]

\* pivot_table(index='datetime', columns='variable_name', values='value',
\* aggfunc='first'): rows and columns exist only for non-null aggregates
convert_long_to_wide(df) ==
    LET kept == {e \in Range(df) : e.value # None}
        index == {e.datetime : e \in kept}
        columns == {e.variable_name : e \in kept}
    IN [index |-> index,
        columns |-> columns,
        cell |-> [c \in index \X columns |-> FirstOf(df, c[1], c[2], "value", None)]]

\* every column taken, with or without a model
AvailableVarsAll(ms, wide) == wide.columns

\* [v for v in detector.models.keys() if v in df_wide.columns]
AvailableVars(ms, wide) == {v \in ms : v \in wide.columns}

\* ------------------------------------------------------- inference bridge
\* the external model: a point is flagged when its value is far from the
\* values the model was trained on
ModelFlags(y) == y > 10

CellLess(a, b) ==
    \/ VarRank(a[2]) < VarRank(b[2])
    \/ a[2] = b[2] /\ a[1] < b[1]

RECURSIVE SeqOfCells(_)
SeqOfCells(S) ==
    IF S = {} THEN <<>>
    ELSE LET c == CHOOSE x \in S : \A y \in S : x = y \/ CellLess(x, y)
         IN <<c>> \o SeqOfCells(S \ {c})

\* a detector that gives nothing as soon as one model call fails
detect_anomalies_together(wide, variables, failed) ==
    LET cells == {c \in wide.index \X variables : wide.cell[c] # None}
        s == SeqOfCells(IF failed = {} THEN cells ELSE {})
    IN [i \in DOMAIN s |->
          [ds |-> s[i][1], variable |-> s[i][2], y |-> wide.cell[s[i]],
           is_anomaly |-> ModelFlags(wide.cell[s[i]])]]

\* detect_anomalies_multiple(df, variables, combine_results=True): one record
\* per point of each variable whose model call did not fail, variable by
\* variable; a variable in failed is skipped
detect_anomalies_multiple(wide, variables, failed) ==
    LET cells == {c \in wide.index \X (variables \ failed) : wide.cell[c] # None}
        s == SeqOfCells(cells)
    IN [i \in DOMAIN s |->
          [ds |-> s[i][1], variable |-> s[i][2], y |-> wide.cell[s[i]],
           is_anomaly |-> ModelFlags(wide.cell[s[i]])]]

\* source_file_map.get((row['ds'], row['variable']), 'unknown')
SourceFileOf(df, ds, v) ==
    IF \E e \in Range(df) : e.datetime = ds /\ e.variable_name = v
    THEN FirstOf(df, ds, v, "source_file", NullText)
    ELSE "unknown"

\* astype(int) of a flag: True is 1, False is 0, an integer is itself
AsInt(b) ==
    IF ToString(b) = "TRUE" THEN 1
    ELSE IF ToString(b) = "FALSE" THEN 0
    ELSE b

\* the record as written: source_file added, flags as 0/1
Sanitize(df, r) ==
    [ds |-> r.ds, variable |-> r.variable, y |-> r.y,
     is_anomaly |-> AsInt(r.is_anomaly),
     source_file |-> SourceFileOf(df, r.ds, r.variable)]

RECURSIVE SumAnomalies(_)
SumAnomalies(rs) ==
    IF rs = <<>> THEN 0 ELSE Head(rs).is_anomaly + SumAnomalies(Tail(rs))

\* ------------------------------------------------------------- watermark
\* the assignment without its guard
AdvanceUnguarded(current, candidate) == candidate

\* if new_last > self.last_processed_datetime: ... = new_last
Advance(current, candidate) ==
    IF candidate > current THEN candidate ELSE current

\* now - 24 h whatever the result table holds
InitialWatermarkFresh(res, lookback) == lookback

\* initialize: MAX(ds) of the result table, else now - 24 h
InitialWatermark(res, lookback) ==
    IF get_last_processed_datetime(res) # None
    THEN get_last_processed_datetime(res)
    ELSE lookback

\* ---------------------------------------------------- result sanitizer
\* scores are counted in hundredths; the float values that are no number
NaN == -2000000000

PosInf == 1000000000

NegInf == -1000000000

\* clip(lower=0, upper=999.99)
ClipUpper == 99999

ScoreValues == {NaN, NegInf, -500, 0, 1250, ClipUpper, ClipUpper + 1, 500000, PosInf}

\* replace([np.inf, -np.inf], np.nan)
ReplaceInf(x) == IF x \in {PosInf, NegInf} THEN NaN ELSE x

\* fillna(0)
FillNa(x) == IF x = NaN THEN 0 ELSE x

\* clip(lower=0) alone
ClipLower(x) ==
    IF x = NaN THEN NaN ELSE IF x < 0 THEN 0 ELSE x

\* clip(lower=0, upper=999.99); a NaN stays a NaN
Clip(x) ==
    IF x = NaN THEN NaN
    ELSE IF x < 0 THEN 0
    ELSE IF x > ClipUpper THEN ClipUpper
    ELSE x

\* fillna(0) before replace([np.inf, -np.inf], np.nan)
CleanErrorPctFillFirst(x) == Clip(ReplaceInf(FillNa(x)))

\* results['anomaly_score'].fillna(0).clip(lower=0, upper=999.99)
CleanScore(x) == Clip(FillNa(x))

\* results['prediction_error_pct'].replace(...) then .fillna(0).clip(...)
CleanErrorPct(x) == Clip(FillNa(ReplaceInf(x)))

\* astype(int) of the three flags and nothing else
FlagsOnly(r) ==
    [outside_interval |-> AsInt(r.outside_interval),
     high_residual |-> AsInt(r.high_residual),
     is_anomaly |-> AsInt(r.is_anomaly),
     anomaly_score |-> r.anomaly_score,
     prediction_error_pct |-> r.prediction_error_pct]

\* process_new_anomalies, from "Convertir booleanos" to "Limpiar valores"
SanitizeRecord(r) ==
    [outside_interval |-> AsInt(r.outside_interval),
     high_residual |-> AsInt(r.high_residual),
     is_anomaly |-> AsInt(r.is_anomaly),
     anomaly_score |-> CleanScore(r.anomaly_score),
     prediction_error_pct |-> CleanErrorPct(r.prediction_error_pct)]

\* the records of the external model: three boolean flags and two floats
RawRecords ==
    [outside_interval : BOOLEAN, high_residual : {FALSE}, is_anomaly : BOOLEAN,
     anomaly_score : ScoreValues, prediction_error_pct : ScoreValues]

NoRecord ==
    [outside_interval |-> 0, high_residual |-> 0, is_anomaly |-> 0,
     anomaly_score |-> 0, prediction_error_pct |-> 0]

\* DECIMAL(5,2) takes a NULL and the numbers of at most three integer digits
FitsDecimal52(x) == x = NaN \/ (x >= -ClipUpper /\ x <= ClipUpper)

SanitizerIdle ==
    /\ raw = NoRecord
    /\ clean = NoRecord
    /\ clean_again = NoRecord
    /\ stored = <<>>

\* ------------------------------------------------------------ provenance
\* the model's frame has no source_file column
NoColumn == "no column"

\* the literal of process_new_anomalies and the one of detect_from_sql.py
Unknown == "unknown"

BatchLiteral == "sql_datos_proceso"

\* process_new_anomalies: if 'source_file' not in results.columns, the map of
\* the batch is looked up; a column the model gave is left as it is
WorkerSource(df, r) ==
    IF r.source_file = NoColumn
    THEN SourceFileOf(df, r.ds, r.variable)
    ELSE r.source_file

\* detect_from_sql.py main: if 'source_file' not in results.columns, the
\* literal
BatchSource(r) ==
    IF r.source_file = NoColumn THEN BatchLiteral ELSE r.source_file

ModelOutputs ==
    [ds : 1..2, variable : {"A", "B"}, source_file : {NoColumn, "m1"}]

NoOutput == [ds |-> 0, variable |-> "", source_file |-> NoColumn]

ProvenanceIdle ==
    /\ model_out = NoOutput
    /\ attributed = NoColumn
    /\ attributed_batch = NoColumn

\* ------------------------------------------------------- the bootstrap
MaxFailures == 1      \* index steps of one run whose try block raises

InputTable == "datos_proceso"

OutputTable == "anomalies_detector"

Programs == {"worker_procesamiento", "detect_from_sql", "write_training_data_to_sql"}

\* the table a script's bootstrap creates
TableOf(p) == IF p = "write_training_data_to_sql" THEN InputTable ELSE OutputTable

\* the names of the list "indexes" of a script's bootstrap
IndexesOf(p) ==
    CASE p = "worker_procesamiento" ->
            {"idx_ds", "idx_variable", "idx_is_anomaly", "idx_processed_at"}
      [] p = "detect_from_sql" ->
            {"idx_ds", "idx_variable", "idx_is_anomaly", "idx_anomaly_score",
             "idx_processed_at"}
      [] p = "write_training_data_to_sql" ->
            {"idx_datetime", "idx_variable", "idx_created"}

\* the databases a bootstrap may find: any of the two tables, each table
\* there with any of the indexes a script creates on it
Catalogs ==
    UNION {{[tables |-> ts, indexes |-> ix] :
               ix \in SUBSET ((ts \cap {InputTable})
                                  \X IndexesOf("write_training_data_to_sql")
                              \cup (ts \cap {OutputTable})
                                  \X IndexesOf("detect_from_sql"))} :
           ts \in SUBSET {InputTable, OutputTable}}

NoCatalog == [tables |-> {}, indexes |-> {}]

\* SQLConnection.create_table_if_not_exists
create_table_if_not_exists(cat, t) ==
    IF t \in cat.tables THEN cat ELSE [cat EXCEPT !.tables = @ \cup {t}]

\* SELECT COUNT(*) FROM sys.indexes WHERE name = n AND object_id = OBJECT_ID(t)
IndexExists(cat, t, n) == <<t, n>> \in cat.indexes

IndexesToCreateUnchecked(cat, t, names) == names

\* the indexes of the list whose CREATE INDEX is executed: "if not exists"
IndexesToCreate(cat, t, names) == {n \in names : ~IndexExists(cat, t, n)}

\* one run of create_anomalies_table or create_datos_proceso_table; fail is
\* the set of indexes whose try block raised, which the except clause passes
\* over; attempts are the CREATE statements executed
RunBootstrap(cat, p, fail) ==
    LET t == TableOf(p)
        with_table == create_table_if_not_exists(cat, t)
        todo == IndexesToCreate(with_table, t, IndexesOf(p) \ fail)
    IN  [before |-> cat,
         fail |-> fail,
         attempts |-> (IF t \in cat.tables THEN {} ELSE {<<t>>})
                          \cup {<<t, n>> : n \in todo},
         after |-> [with_table EXCEPT !.indexes = @ \cup {<<t, n>> : n \in todo}]]

BootstrapIdle ==
    /\ program = "none"
    /\ catalog = NoCatalog
    /\ boots = <<>>

\* ------------------------------------------------ the transformers alone
MaxLen == 3           \* rows of a batch given to the shape transformer

\* the values of the value column: DECIMAL(18,6), nullable
CellValues == {None, 10, 99}

LongRows == {Row(t, v, x, "f1") : t \in 1..2, v \in {"A", "B"}, x \in CellValues}

RECURSIVE SeqsUpTo(_, _)
SeqsUpTo(S, n) ==
    IF n = 0 THEN {<<>>}
    ELSE LET shorter == SeqsUpTo(S, n - 1)
         IN shorter \cup {Append(q, e) : q \in {r \in shorter : Len(r) = n - 1}, e \in S}

Batches == SeqsUpTo(LongRows, MaxLen) \ {<<>>}

\* the melt alone, rows without a value kept
MeltOnly(w) ==
    LET melted == SeqOfCells(w.index \X w.columns)
    IN [i \in DOMAIN melted |->
          [datetime |-> melted[i][1], variable_name |-> melted[i][2],
           value |-> w.cell[melted[i]]]]

\* df.melt(id_vars=[datetime_col], value_vars=variable_cols), column by
\* column, then dropna(subset=['value'])
transform_data_to_long_format(w) ==
    LET melted == SeqOfCells(w.index \X w.columns)
        kept == SelectSeq(melted, LAMBDA c : w.cell[c] # None)
    IN [i \in DOMAIN kept |->
          [datetime |-> kept[i][1], variable_name |-> kept[i][2],
           value |-> w.cell[kept[i]]]]

\* no transformer run is under way
TransformersIdle ==
    /\ step = "off"
    /\ events = <<>>
    /\ widened = convert_long_to_wide(<<>>)
    /\ widened_again = convert_long_to_wide(<<>>)
    /\ narrowed = <<>>
    /\ SanitizerIdle
    /\ ProvenanceIdle
    /\ BootstrapIdle

\* ------------------------------------------------------------ the worker
NothingPersisted == [anomalies |-> 0, datetimes |-> 0]

\* the count of what the worker appended, after the append of the records
\* made from the batch rows: the records flagged as anomalies, and the
\* distinct datetimes of the batch that have a value
Persist(p, rows, records) ==
    [anomalies |-> p.anomalies
                     + Cardinality({i \in DOMAIN records : records[i].is_anomaly = 1}),
     datetimes |-> p.datetimes
                     + Cardinality({rows[i].datetime :
                                      i \in {j \in DOMAIN rows : rows[j].value # None}})]

\* AnomalyDetectionWorker.__init__
InitFrom(stores) ==
    /\ datos_proceso \in InitialTables
    /\ inserted = 0
    /\ anomalies_detector \in stores
    /\ models \in Registries
    /\ pc = "start"
    /\ last_processed_datetime = None
    /\ total_processed = 0
    /\ total_anomalies = 0
    /\ iterations = 0
    /\ df_long = <<>>
    /\ results_to_write = <<>>
    /\ n_datetimes = 0
    /\ processed = FALSE
    /\ initial_watermark = None
    /\ cycle_kind = "none"
    /\ cycle_watermark = None
    /\ window = <<>>
    /\ update_lost = FALSE
    /\ failed_vars = {}
    /\ persisted = NothingPersisted
    /\ TransformersIdle

\* the worker started on an empty result table
Init == InitFrom({<<>>})

\* a record of the result table
Result(t, v, x) ==
    [ds |-> t, variable |-> v, y |-> x, is_anomaly |-> 0, source_file |-> "f1"]

\* what earlier runs of the worker or of detect_from_sql.py may have left in
\* the result table
InitialResults ==
    {<<>>,
     <<Result(1, "A", 10)>>,
     <<Result(2, "A", 99), Result(1, "A", 10)>>}

\* the worker started on a result table that may hold records
InitRestart == InitFrom(InitialResults)

\* the end of check_and_process, and of run when a query failed
EndCycleFatal(result, kind, batch) ==
    /\ pc' = IF kind = "query_failed" THEN "stopped" ELSE "idle"
    /\ processed' = result
    /\ df_long' = <<>>
    /\ results_to_write' = <<>>
    /\ n_datetimes' = 0
    /\ cycle_kind' = kind
    /\ window' = batch

\* the end of check_and_process: its locals are gone, run has its result
EndCycle(result, kind, batch) ==
    /\ pc' = "idle"
    /\ processed' = result
    /\ df_long' = <<>>
    /\ results_to_write' = <<>>
    /\ n_datetimes' = 0
    /\ cycle_kind' = kind
    /\ window' = batch

\* another process inserts a row into datos_proceso. The table is held in the
\* order of the poll's ORDER BY; among rows of equal (datetime, variable_name)
\* the database is free to deliver the new row at any place. With in_order the
\* row is newer than the watermark the worker holds
InsertEvent(in_order) ==
    /\ UNCHANGED pure
    /\ UNCHANGED failed_vars
    /\ UNCHANGED persisted
    /\ pc # "stopped"
    /\ inserted < MaxInserts
    /\ inserted' = inserted + 1
    /\ \E e \in Arrivals, p \in 0..Len(datos_proceso) :
           LET tbl == SubSeq(datos_proceso, 1, p) \o <<e>>
                      \o SubSeq(datos_proceso, p + 1, Len(datos_proceso))
           IN /\ in_order => e.datetime > last_processed_datetime
              /\ IsOrdered(tbl)
              /\ datos_proceso' = tbl
    /\ UNCHANGED <<prog, hist>>

\* initialize without its look at the model files
InitializeUnchecked(connects, lookbacks) ==
    /\ UNCHANGED pure
    /\ UNCHANGED failed_vars
    /\ UNCHANGED persisted
    /\ pc = "start"
    /\ \E connected \in connects, lookback \in lookbacks :
         IF ~connected
         THEN /\ pc' = "stopped"
              /\ UNCHANGED <<last_processed_datetime, initial_watermark>>
         ELSE /\ pc' = "idle"
              /\ last_processed_datetime' =
                     InitialWatermark(anomalies_detector, lookback)
              /\ initial_watermark' = last_processed_datetime'
    /\ UNCHANGED <<datos_proceso, inserted, anomalies_detector, models,
                   total_processed, total_anomalies, iterations, df_long,
                   results_to_write, n_datetimes, processed, cycle_kind,
                   cycle_watermark, window, update_lost>>

\* run: initialize() and, when it returns False, the return of run
Initialize(connects, lookbacks) ==
    /\ UNCHANGED pure
    /\ UNCHANGED failed_vars
    /\ UNCHANGED persisted
    /\ pc = "start"
    /\ \E connected \in connects, lookback \in lookbacks :
         IF models = {} \/ ~connected
         THEN /\ pc' = "stopped"
              /\ UNCHANGED <<last_processed_datetime, initial_watermark>>
         ELSE /\ pc' = "idle"
              /\ last_processed_datetime' =
                     InitialWatermark(anomalies_detector, lookback)
              /\ initial_watermark' = last_processed_datetime'
    /\ UNCHANGED <<datos_proceso, inserted, anomalies_detector, models,
                   total_processed, total_anomalies, iterations, df_long,
                   results_to_write, n_datetimes, processed, cycle_kind,
                   cycle_watermark, window, update_lost>>

\* check_and_process without its return on an empty poll
CheckPollNoReturn(answers) ==
    /\ UNCHANGED pure
    /\ failed_vars' = {}
    /\ UNCHANGED persisted
    /\ pc = "idle"
    /\ iterations < MaxIter
    /\ iterations' = iterations + 1
    /\ cycle_watermark' = last_processed_datetime
    /\ \E query_ok \in answers :
         IF ~query_ok
         THEN EndCycle(FALSE, "query_failed", <<>>)
         ELSE /\ pc' = "process"
              /\ cycle_kind' = "running"
              /\ window' = <<>>
              /\ UNCHANGED <<processed, df_long, results_to_write, n_datetimes>>
    /\ UNCHANGED <<datos_proceso, inserted, anomalies_detector, models,
                   last_processed_datetime, total_processed, total_anomalies,
                   initial_watermark, update_lost>>

\* run: self.iterations += 1, then check_and_process up to its first poll
CheckPoll(answers) ==
    /\ UNCHANGED pure
    /\ failed_vars' = {}
    /\ UNCHANGED persisted
    /\ pc = "idle"
    /\ iterations < MaxIter
    /\ iterations' = iterations + 1
    /\ cycle_watermark' = last_processed_datetime
    /\ \E query_ok \in answers :
         IF ~query_ok
         THEN EndCycle(FALSE, "query_failed", <<>>)
         ELSE IF get_new_data_from_sql(datos_proceso, last_processed_datetime) = <<>>
         THEN EndCycle(FALSE, "no_data", <<>>)
         ELSE /\ pc' = "process"
              /\ cycle_kind' = "running"
              /\ window' = <<>>
              /\ UNCHANGED <<processed, df_long, results_to_write, n_datetimes>>
    /\ UNCHANGED <<datos_proceso, inserted, anomalies_detector, models,
                   last_processed_datetime, total_processed, total_anomalies,
                   initial_watermark, update_lost>>

\* process_new_anomalies without its return on an empty result
ProcessBatchNoReturn(answers, may_fail) ==
    /\ UNCHANGED pure
    /\ UNCHANGED persisted
    /\ pc = "process"
    /\ \E query_ok \in answers :
         LET rows == get_new_data_from_sql(datos_proceso, last_processed_datetime)
             df_wide == convert_long_to_wide(rows)
             available_vars == AvailableVars(models, df_wide)
         IN IF ~query_ok
            THEN EndCycle(FALSE, "query_failed", <<>>) /\ UNCHANGED failed_vars
            ELSE IF rows = <<>>
            THEN EndCycle(FALSE, "no_data", <<>>) /\ UNCHANGED failed_vars
            ELSE IF available_vars = {}
            THEN EndCycle(FALSE, "no_overlap", rows) /\ UNCHANGED failed_vars
            ELSE \E failed \in (IF may_fail THEN SUBSET available_vars ELSE {{}}) :
                   LET results == detect_anomalies_multiple(df_wide, available_vars, failed)
                   IN /\ failed_vars' = failed
                      /\ pc' = "write"
                      /\ df_long' = rows
                      /\ results_to_write' =
                             [i \in DOMAIN results |-> Sanitize(rows, results[i])]
                      /\ n_datetimes' = Cardinality(df_wide.index)
                      /\ UNCHANGED <<processed, cycle_kind, window>>
    /\ UNCHANGED <<datos_proceso, inserted, anomalies_detector, models,
                   last_processed_datetime, total_processed, total_anomalies,
                   iterations, initial_watermark, cycle_watermark, update_lost>>

\* process_new_anomalies from its own poll to the frame it is about to write;
\* with may_fail a model call can fail
ProcessBatch(answers, may_fail) ==
    /\ UNCHANGED pure
    /\ UNCHANGED persisted
    /\ pc = "process"
    /\ \E query_ok \in answers :
         LET rows == get_new_data_from_sql(datos_proceso, last_processed_datetime)
             df_wide == convert_long_to_wide(rows)
             available_vars == AvailableVars(models, df_wide)
         IN IF ~query_ok
            THEN EndCycle(FALSE, "query_failed", <<>>) /\ UNCHANGED failed_vars
            ELSE IF rows = <<>>
            THEN EndCycle(FALSE, "no_data", <<>>) /\ UNCHANGED failed_vars
            ELSE IF available_vars = {}
            THEN EndCycle(FALSE, "no_overlap", rows) /\ UNCHANGED failed_vars
            ELSE \E failed \in (IF may_fail THEN SUBSET available_vars ELSE {{}}) :
                   LET results == detect_anomalies_multiple(df_wide, available_vars, failed)
                   IN /\ failed_vars' = failed
                      /\ IF results = <<>>
                         THEN EndCycle(FALSE, "no_results", rows)
                         ELSE /\ pc' = "write"
                              /\ df_long' = rows
                              /\ results_to_write' =
                                     [i \in DOMAIN results |-> Sanitize(rows, results[i])]
                              /\ n_datetimes' = Cardinality(df_wide.index)
                              /\ UNCHANGED <<processed, cycle_kind, window>>
    /\ UNCHANGED <<datos_proceso, inserted, anomalies_detector, models,
                   last_processed_datetime, total_processed, total_anomalies,
                   iterations, initial_watermark, cycle_watermark, update_lost>>

\* the watermark moved to the batch's last datetime whether the write
\* succeeded or not
WriteResultsAdvancing(answers) ==
    /\ UNCHANGED pure
    /\ UNCHANGED failed_vars
    /\ pc = "write"
    /\ \E success \in answers :
         IF success
         THEN /\ anomalies_detector' = anomalies_detector \o results_to_write
              /\ persisted' = Persist(persisted, df_long, results_to_write)
              /\ pc' = "requery"
              /\ UNCHANGED <<processed, df_long, results_to_write, n_datetimes,
                             cycle_kind, window, last_processed_datetime>>
         ELSE /\ EndCycle(FALSE, "write_failed", df_long)
              /\ last_processed_datetime' =
                     MaxOf({e.datetime : e \in Range(df_long)})
              /\ UNCHANGED <<anomalies_detector, persisted>>
    /\ UNCHANGED <<datos_proceso, inserted, models,
                   total_processed, total_anomalies, iterations,
                   initial_watermark, cycle_watermark, update_lost>>

\* process_new_anomalies: write_dataframe(..., if_exists='append'), which
\* returns False or raises when it fails
WriteResults(answers) ==
    /\ UNCHANGED pure
    /\ UNCHANGED failed_vars
    /\ pc = "write"
    /\ \E success \in answers :
         IF success
         THEN /\ anomalies_detector' = anomalies_detector \o results_to_write
              /\ persisted' = Persist(persisted, df_long, results_to_write)
              /\ pc' = "requery"
              /\ UNCHANGED <<processed, df_long, results_to_write, n_datetimes,
                             cycle_kind, window>>
         ELSE /\ EndCycle(FALSE, "write_failed", df_long)
              /\ UNCHANGED <<anomalies_detector, persisted>>
    /\ UNCHANGED <<datos_proceso, inserted, models, last_processed_datetime,
                   total_processed, total_anomalies, iterations,
                   initial_watermark, cycle_watermark, update_lost>>

\* check_and_process after a write that succeeded: SELECT MAX(datetime),
\* the watermark and the counters
UpdateWatermark(answers) ==
    /\ UNCHANGED pure
    /\ UNCHANGED failed_vars
    /\ UNCHANGED persisted
    /\ pc = "requery"
    /\ \E answer \in answers :
         /\ update_lost' = (update_lost \/ answer # "row")
         /\ IF answer = "raise"
            THEN /\ EndCycle(FALSE, "requery_raised", df_long)
                 /\ UNCHANGED <<last_processed_datetime, total_processed,
                                total_anomalies>>
            ELSE /\ last_processed_datetime' =
                        IF answer = "row" /\ MaxDatetime(datos_proceso) # None
                        THEN Advance(last_processed_datetime,
                                     MaxDatetime(datos_proceso))
                        ELSE last_processed_datetime
                 /\ total_processed' = total_processed + n_datetimes
                 /\ total_anomalies' = total_anomalies + SumAnomalies(results_to_write)
                 /\ EndCycle(TRUE, IF answer = "row" THEN "scored" ELSE "requery_empty",
                             df_long)
    /\ UNCHANGED <<datos_proceso, inserted, anomalies_detector, models,
                   iterations, initial_watermark, cycle_watermark>>

RequeryAnswers == {"row", "nothing", "raise"}

\* storage and model calls can fail, rows arrive with any timestamp
Next ==
    \/ InsertEvent(FALSE)
    \/ Initialize(BOOLEAN, Lookbacks)
    \/ CheckPoll(BOOLEAN)
    \/ ProcessBatch(BOOLEAN, TRUE)
    \/ WriteResults(BOOLEAN)
    \/ UpdateWatermark(RequeryAnswers)

Spec == Init /\ [][Next]_vars

\* the run without faults: the clock of initialize is on a whole second, no
\* storage or model call fails, a row that arrives is newer than the watermark
NextNominal ==
    \/ InsertEvent(TRUE)
    \/ Initialize({TRUE}, {0})
    \/ CheckPoll({TRUE})
    \/ ProcessBatch({TRUE}, FALSE)
    \/ WriteResults({TRUE})
    \/ UpdateWatermark({"row"})

SpecNominal == Init /\ [][NextNominal]_vars

\* Ctrl+C: KeyboardInterrupt is raised in the worker wherever it is, passes
\* the `except Exception` of check_and_process and of process_new_anomalies,
\* and is caught by run, which prints the totals and returns
Cancel ==
    /\ UNCHANGED pure
    /\ UNCHANGED failed_vars
    /\ UNCHANGED persisted
    /\ pc \in {"idle", "process", "write", "requery"}
    /\ pc' = "stopped"
    /\ df_long' = <<>>
    /\ results_to_write' = <<>>
    /\ n_datetimes' = 0
    /\ cycle_kind' = IF pc = "idle" THEN cycle_kind ELSE "interrupted"
    /\ window' = IF pc = "idle" THEN window ELSE df_long
    /\ UNCHANGED <<datos_proceso, inserted, anomalies_detector, models,
                   last_processed_datetime, total_processed, total_anomalies,
                   iterations, processed, initial_watermark, cycle_watermark,
                   update_lost>>

\* the run without faults, stopped by the user at any moment
NextCancel ==
    \/ InsertEvent(TRUE)
    \/ Initialize({TRUE}, {0})
    \/ CheckPoll({TRUE})
    \/ ProcessBatch({TRUE}, FALSE)
    \/ WriteResults({TRUE})
    \/ UpdateWatermark({"row"})
    \/ Cancel

SpecCancel == Init /\ [][NextCancel]_vars

\* any run of the worker on a result table that may hold records
SpecRestart == InitRestart /\ [][Next]_vars

\* ---------------------------------------------------------------- claims
\* what a poll returns in the current state
\* ------------------------------------------- runs of the transformers
\* the worker is not running
WorkerOff ==
    /\ datos_proceso = <<>>
    /\ inserted = 0
    /\ anomalies_detector = <<>>
    /\ models = {}
    /\ pc = "stopped"
    /\ last_processed_datetime = None
    /\ total_processed = 0
    /\ total_anomalies = 0
    /\ iterations = 0
    /\ df_long = <<>>
    /\ results_to_write = <<>>
    /\ n_datetimes = 0
    /\ processed = FALSE
    /\ initial_watermark = None
    /\ cycle_kind = "none"
    /\ cycle_watermark = None
    /\ window = <<>>
    /\ update_lost = FALSE
    /\ failed_vars = {}
    /\ persisted = NothingPersisted

InitShape ==
    /\ WorkerOff
    /\ step = "input"
    /\ events \in Batches
    /\ widened = convert_long_to_wide(<<>>)
    /\ widened_again = convert_long_to_wide(<<>>)
    /\ narrowed = <<>>
    /\ SanitizerIdle
    /\ ProvenanceIdle
    /\ BootstrapIdle

\* df_wide = convert_long_to_wide(df_long)
Widen ==
    /\ step = "input"
    /\ step' = "wide"
    /\ widened' = convert_long_to_wide(events)
    /\ UNCHANGED <<datos_proceso, inserted, prog, hist, failed_vars, persisted, sani, prov, boot, events, widened_again, narrowed>>

\* the same call on the same rows, once more
WidenAgain ==
    /\ step = "wide"
    /\ step' = "wide twice"
    /\ widened_again' = convert_long_to_wide(events)
    /\ UNCHANGED <<datos_proceso, inserted, prog, hist, failed_vars, persisted, sani, prov, boot, events, widened, narrowed>>

\* transform_data_to_long_format(df_wide, 'DATETIME')
Narrow ==
    /\ step = "wide twice"
    /\ step' = "long"
    /\ narrowed' = transform_data_to_long_format(widened)
    /\ UNCHANGED <<datos_proceso, inserted, prog, hist, failed_vars, persisted, sani, prov, boot, events, widened, widened_again>>

NextShape == Widen \/ WidenAgain \/ Narrow

SpecShape == InitShape /\ [][NextShape]_vars

\* ---------------------------------------------- runs of the sanitizer
InitSanitize ==
    /\ WorkerOff
    /\ step = "input"
    /\ events = <<>>
    /\ widened = convert_long_to_wide(<<>>)
    /\ widened_again = convert_long_to_wide(<<>>)
    /\ narrowed = <<>>
    /\ raw \in RawRecords
    /\ clean = NoRecord
    /\ clean_again = NoRecord
    /\ stored = <<>>
    /\ ProvenanceIdle
    /\ BootstrapIdle

\* the conversions of process_new_anomalies on the model's record
SanitizeOnce ==
    /\ step = "input"
    /\ step' = "clean"
    /\ clean' = SanitizeRecord(raw)
    /\ UNCHANGED <<datos_proceso, inserted, prog, hist, failed_vars, persisted, shape, prov, boot, raw, clean_again, stored>>

\* the same conversions on their own result
SanitizeTwice ==
    /\ step = "clean"
    /\ step' = "clean twice"
    /\ clean_again' = SanitizeRecord(clean)
    /\ UNCHANGED <<datos_proceso, inserted, prog, hist, failed_vars, persisted, shape, prov, boot, raw, clean, stored>>

\* write_dataframe(..., if_exists='append'): the row is appended when the
\* database takes its values and the write does not fail otherwise
Append_(r, ok) ==
    IF ok /\ FitsDecimal52(r.anomaly_score) /\ FitsDecimal52(r.prediction_error_pct)
    THEN stored' = Append(stored, r)
    ELSE UNCHANGED stored

\* process_new_anomalies: the write of the sanitized record
WorkerAppend ==
    /\ step = "clean twice"
    /\ step' = "written"
    /\ \E ok \in BOOLEAN : Append_(clean, ok)
    /\ UNCHANGED <<datos_proceso, inserted, prog, hist, failed_vars, persisted, shape, prov, boot, raw, clean, clean_again>>

\* detect_from_sql.py main: astype(int) of the flags, then the write
BatchAppend ==
    /\ step = "input"
    /\ step' = "written by batch"
    /\ \E ok \in BOOLEAN : Append_(FlagsOnly(raw), ok)
    /\ UNCHANGED <<datos_proceso, inserted, prog, hist, failed_vars, persisted, shape, prov, boot, raw, clean, clean_again>>

NextSanitize == SanitizeOnce \/ SanitizeTwice \/ WorkerAppend \/ BatchAppend

SpecSanitize == InitSanitize /\ [][NextSanitize]_vars

\* -------------------------------------------- runs of the provenance
\* rows of a batch with a source_file or without
SourcedRows ==
    {Row(t, v, 10, f) : t \in 1..2, v \in {"A", "B"}, f \in {"f1", "f2", NullText}}

SourcedBatches == SeqsUpTo(SourcedRows, MaxLen) \ {<<>>}

InitSource ==
    /\ WorkerOff
    /\ step = "input"
    /\ events \in SourcedBatches
    /\ widened = convert_long_to_wide(<<>>)
    /\ widened_again = convert_long_to_wide(<<>>)
    /\ narrowed = <<>>
    /\ SanitizerIdle
    /\ model_out \in {r \in ModelOutputs :
                        \E e \in Range(events) :
                           e.datetime = r.ds /\ e.variable_name = r.variable}
    /\ attributed = NoColumn
    /\ attributed_batch = NoColumn
    /\ BootstrapIdle

\* process_new_anomalies, "Agregar source_file si no existe"
AttributeInWorker ==
    /\ step = "input"
    /\ step' = "attributed"
    /\ attributed' = WorkerSource(events, model_out)
    /\ UNCHANGED <<datos_proceso, inserted, prog, hist, failed_vars, persisted, shape, sani, boot,
                   model_out, attributed_batch>>

\* detect_from_sql.py main, "Agregar source_file si no existe"
AttributeInBatch ==
    /\ step = "input"
    /\ step' = "attributed by batch"
    /\ attributed_batch' = BatchSource(model_out)
    /\ UNCHANGED <<datos_proceso, inserted, prog, hist, failed_vars, persisted, shape, sani, boot,
                   model_out, attributed>>

NextSource == AttributeInWorker \/ AttributeInBatch

SpecSource == InitSource /\ [][NextSource]_vars

\* a script is about to run its bootstrap on some database
InitBootstrap ==
    /\ WorkerOff
    /\ step = "fresh"
    /\ events = <<>>
    /\ widened = convert_long_to_wide(<<>>)
    /\ widened_again = convert_long_to_wide(<<>>)
    /\ narrowed = <<>>
    /\ SanitizerIdle
    /\ ProvenanceIdle
    /\ program \in Programs
    /\ catalog \in Catalogs
    /\ boots = <<>>

Failures(p) == {F \in SUBSET IndexesOf(p) : Cardinality(F) <= MaxFailures}

Bootstrap(from, to) ==
    /\ step = from
    /\ step' = to
    /\ \E fail \in Failures(program) :
          LET run == RunBootstrap(catalog, program, fail)
          IN  /\ catalog' = run.after
              /\ boots' = Append(boots, run)
    /\ UNCHANGED <<datos_proceso, inserted, prog, hist, failed_vars, persisted, shape, sani,
                   prov, program>>

\* the script starts: create_anomalies_table(sql_conn) or
\* create_datos_proceso_table(sql_conn)
BootstrapOnce == Bootstrap("fresh", "once")

\* the script is started again
BootstrapAgain == Bootstrap("once", "twice")

NextBootstrap == BootstrapOnce \/ BootstrapAgain

SpecBootstrap == InitBootstrap /\ [][NextBootstrap]_vars

Poll == get_new_data_from_sql(datos_proceso, last_processed_datetime)

Datetimes(rows) == {e.datetime : e \in Range(rows)}

HasRecord(t, v) ==
    \E r \in Range(anomalies_detector) : r.ds = t /\ r.variable = v

\* C1: once initialize has set it, the watermark never decreases, and when a
\* step changes it the new value is the maximum of the old value and the
\* MAX(datetime) the re-query read
C1_WatermarkMonotone ==
    [][pc # "start" =>
         /\ last_processed_datetime' >= last_processed_datetime
         /\ last_processed_datetime' \in
                {last_processed_datetime,
                 MaxOf({last_processed_datetime, MaxDatetime(datos_proceso)})}]_vars

\* a cycle wrote its batch, its re-query read a MAX(datetime) older than the
\* watermark, and the watermark stayed
C1_Witness ==
    /\ pc = "idle"
    /\ cycle_kind = "scored"
    /\ ~update_lost
    /\ MaxDatetime(datos_proceso) < last_processed_datetime
    /\ last_processed_datetime = cycle_watermark

\* C2: after a cycle whose write failed the watermark is the one the cycle
\* began with, and a poll returns every row of the failed batch again
C2_FailedWriteRetried ==
    (pc = "idle" /\ cycle_kind = "write_failed") =>
        /\ last_processed_datetime = cycle_watermark
        /\ Range(window) \subseteq Range(Poll)

\* the write of a batch of three datetimes failed
C2_Witness ==
    /\ pc = "idle"
    /\ cycle_kind = "write_failed"
    /\ Cardinality(Datetimes(window)) = 3
    /\ Datetimes(window) \subseteq Datetimes(Poll)
\* C3: between two cycles, every row of the event table that is newer than
\* the initial watermark, at or before the watermark, and of a variable with
\* a model has a record in the result table
C3_WatermarkCoversEvents ==
    (pc = "idle" /\ iterations > 0) =>
        \A e \in Range(datos_proceso) :
            (/\ e.datetime > initial_watermark
             /\ e.datetime <= last_processed_datetime
             /\ e.variable_name \in models)
            => HasRecord(e.datetime, e.variable_name)

\* C4: unless a re-query after a successful write gave no row, the result
\* table holds at most one record for a (ds, variable)
C4_NoDuplicateRecords ==
    ~update_lost =>
        \A i, j \in DOMAIN anomalies_detector :
            (/\ anomalies_detector[i].ds = anomalies_detector[j].ds
             /\ anomalies_detector[i].variable = anomalies_detector[j].variable)
            => i = j

\* C5: every row of the batch a cycle polled is newer than the watermark
C5_PollIsExclusive ==
    pc \in {"write", "requery"} =>
        \A e \in Range(df_long) : e.datetime > last_processed_datetime

\* C6: after a cycle whose write succeeded the watermark is the greatest
\* datetime of the batch that cycle wrote
C6_WatermarkIsBatchMaximum ==
    (pc = "idle" /\ cycle_kind \in {"scored", "requery_raised"}) =>
        last_processed_datetime = MaxOf(Datetimes(window))
C8_NoOverlapIsNoop ==
    /\ [][(/\ pc = "process"
           /\ pc' # "process"
           /\ Poll # <<>>
           /\ models \cap {e.variable_name : e \in Range(Poll)} = {}) =>
            /\ pc' = "idle"
            /\ UNCHANGED <<last_processed_datetime, anomalies_detector,
                           total_processed, total_anomalies>>]_vars
    /\ []((pc = "idle" /\ cycle_kind = "no_overlap") =>
            /\ last_processed_datetime = cycle_watermark
            /\ Range(window) \subseteq Range(Poll))

\* a cycle found rows, none of a variable with a model
C8_Witness ==
    /\ pc = "idle"
    /\ cycle_kind = "no_overlap"
    /\ window # <<>>
    /\ models # {}
    /\ Range(window) \subseteq Range(Poll)

\* what run gets from check_and_process for a cycle without new data, and for
\* a cycle that wrote records none of which is an anomaly
NoDataReport == FALSE

ZeroAnomaliesReport == TRUE

\* C9: what run gets from a cycle with no variable in common differs from
\* what it gets from a cycle without new data and from a cycle that scored
\* its batch and found no anomaly
C9_NoOverlapReported ==
    pc = "idle" =>
        /\ cycle_kind = "no_data" => processed = NoDataReport
        /\ (cycle_kind = "scored" /\ total_anomalies = 0) =>
               processed = ZeroAnomaliesReport
        /\ cycle_kind = "no_overlap" =>
               (processed # NoDataReport /\ processed # ZeroAnomaliesReport)
\* the rows of the batch with a value, and the first of them of a pair
Valued(rows) == {i \in DOMAIN rows : rows[i].value # None}

FirstValueOf(rows, t, v) ==
    rows[MinOf({i \in Valued(rows) : /\ rows[i].datetime = t
                                     /\ rows[i].variable_name = v})].value

RecordsOf(res, t, v) ==
    {i \in DOMAIN res : res[i].ds = t /\ res[i].variable = v}

\* events [(t1,A,10),(t1,A,99),(t1,B,5)], registry {A}
ScenarioEvents ==
    <<Row(1, "A", 10, "f1"), Row(1, "A", 99, "f1"), Row(1, "B", 5, "f1")>>

ScenarioRegistry == {"A"}

CellOf(w, t, v) ==
    IF t \in w.index /\ v \in w.columns THEN w.cell[<<t, v>>] ELSE None

FirstRowOf(rows, t, v) ==
    rows[MinOf({i \in DOMAIN rows : rows[i].datetime = t /\ rows[i].variable_name = v})]

\* C11: the wide form of a batch holds, for every (datetime, variable) of the
\* batch, the value of the first row of that pair in the order of the batch,
\* a null first value included, and a second run on the same batch gives the
\* same wide form
C11_FirstSeenWins ==
    /\ step \in {"wide", "wide twice", "long"} =>
         \A e \in Range(events) :
            CellOf(widened, e.datetime, e.variable_name) =
                FirstRowOf(events, e.datetime, e.variable_name).value
    /\ step \in {"wide twice", "long"} => widened_again = widened

Triples(rows) ==
    {<<r.datetime, r.variable_name, r.value>> : r \in Range(rows)}

DuplicateFree(rows) ==
    \A i, j \in DOMAIN rows :
       (rows[i].datetime = rows[j].datetime
        /\ rows[i].variable_name = rows[j].variable_name) => i = j

\* C12 as stated: the long form of the wide form of a batch without two rows
\* of the same (datetime, variable) has exactly the (datetime, variable,
\* value) of the batch
C12_RoundTrip ==
    (step = "long" /\ DuplicateFree(events)) => Triples(narrowed) = Triples(events)

\* C12, amended: the long form of the wide form of a batch without two rows
\* of the same (datetime, variable) has exactly the (datetime, variable,
\* value) of the rows of the batch that have a value
C12_RoundTripOfValues ==
    (step = "long" /\ DuplicateFree(events)) =>
        Triples(narrowed) = {c \in Triples(events) : c[3] # None}

\* three rows of three pairs, one of them without a value, went through
C12_Witness ==
    /\ step = "long"
    /\ DuplicateFree(events)
    /\ Len(events) = 3
    /\ \E e \in Range(events) : e.value = None
    /\ Cardinality(Triples(narrowed)) = 2
    /\ Cardinality(widened.index \X widened.columns) = 4

\* C13: the conversions for storage applied to a record they have already
\* been applied to give that record again
C13_SanitizeIdempotent ==
    step \in {"clean twice", "written"} => clean_again = clean

\* a record with a flag set, a null score and an infinite error went through
\* the conversions twice
C13_Witness ==
    /\ step = "clean twice"
    /\ raw.is_anomaly
    /\ raw.anomaly_score = NaN
    /\ raw.prediction_error_pct = PosInf
    /\ clean_again.is_anomaly = 1
    /\ clean_again.prediction_error_pct = 0

\* C14: after the conversions both scores are within [0, 999.99]; a score
\* above 999.99 is 999.99, a negative one is 0, a null one is 0, and an
\* infinite prediction_error_pct of either sign is 0
C14_SanitizeSaturates ==
    step \in {"clean", "clean twice", "written"} =>
        /\ \A f \in {"anomaly_score", "prediction_error_pct"} :
              /\ clean[f] >= 0 /\ clean[f] <= ClipUpper
              /\ (raw[f] # NaN /\ raw[f] > ClipUpper /\ raw[f] # PosInf) =>
                     clean[f] = ClipUpper
              /\ (raw[f] # NaN /\ raw[f] < 0 /\ raw[f] # NegInf) => clean[f] = 0
              /\ raw[f] = NaN => clean[f] = 0
              /\ (raw[f] # NaN /\ raw[f] >= 0 /\ raw[f] <= ClipUpper) =>
                     clean[f] = raw[f]
        /\ raw.prediction_error_pct \in {PosInf, NegInf} =>
               clean.prediction_error_pct = 0

\* a score of 5000.00 and an infinite negative error were converted
C14_Witness ==
    /\ step = "clean"
    /\ raw.anomaly_score = 500000
    /\ clean.anomaly_score = ClipUpper
    /\ raw.prediction_error_pct = NegInf
    /\ clean.prediction_error_pct = 0

\* C19: every record in the result table, appended by the worker's cycle or
\* by detect_from_sql.py, has both scores within [0, 999.99] and its three
\* flags in {0, 1}
C19_StoredRecordsSanitized ==
    \A i \in DOMAIN stored :
       /\ \A f \in {"anomaly_score", "prediction_error_pct"} :
             stored[i][f] # NaN /\ stored[i][f] >= 0 /\ stored[i][f] <= ClipUpper
       /\ \A f \in {"outside_interval", "high_residual", "is_anomaly"} :
             stored[i][f] \in {0, 1}

C16_NoModelNoCycle ==
    /\ [](models = {} =>
            /\ pc \in {"start", "stopped"}
            /\ iterations = 0
            /\ cycle_kind = "none"
            /\ last_processed_datetime = None
            /\ anomalies_detector = <<>>
            /\ total_processed = 0)
    /\ [][(models = {} /\ pc = "start" /\ pc' # "start") => pc' = "stopped"]_vars

\* a worker without a model stopped while the event table had rows
C16_Witness ==
    /\ models = {}
    /\ pc = "stopped"
    /\ Len(datos_proceso) = 3

\* C17: the worker stops on a cancellation only when it is between two
\* cycles: no step takes it to its end from the middle of a cycle, and after
\* a write that succeeded the re-query and the watermark update are made
\* before it stops
C17_CancelAtBoundary ==
    /\ [][(pc' = "stopped" /\ pc \notin {"start", "stopped"}) => pc = "idle"]_vars
    /\ [][pc = "requery" => pc' \in {"requery", "idle"}]_vars

\* how a cycle ends when its poll fails, when the re-query raises and when
\* the re-query gives no row
FailedQueryKinds == {"query_failed", "requery_raised", "requery_empty"}

\* C20: after a cycle in which the poll or the re-query failed the worker is
\* between two cycles, not stopped, with the watermark the cycle began with;
\* the rows the cycle had polled are still returned by a poll, and the next
\* cycle begins with that same watermark
C20_QueryFailureRetried ==
    /\ [](cycle_kind \in FailedQueryKinds =>
            /\ pc = "idle"
            /\ last_processed_datetime = cycle_watermark
            /\ Range(window) \subseteq Range(Poll))
    /\ [][(cycle_kind \in FailedQueryKinds /\ iterations' = iterations + 1) =>
            cycle_watermark' = cycle_watermark]_vars

\* a first cycle ended on a poll that failed, the second polled the rows and
\* ended on a re-query that raised
C20_Witness ==
    /\ pc = "idle"
    /\ iterations = 2
    /\ cycle_kind = "requery_raised"
    /\ anomalies_detector # <<>>
    /\ Len(anomalies_detector) = Len(window)
    /\ initial_watermark = cycle_watermark
    /\ Range(window) \subseteq Range(Poll)

\* the rows that are in the event table only if they were inserted while the
\* worker ran
InsertedOnly == {e \in Arrivals : \A tbl \in InitialTables : e \notin Range(tbl)}

\* C18: no row inserted while the worker ran is left behind. When the worker
\* is between two cycles and a poll would return nothing, no later cycle scores
\* anything unless a new row arrives; so a row with a model that has no
\* record then is never scored, and every such row must have its record
C18_NothingLeftBehind ==
    (pc = "idle" /\ iterations > 0 /\ Poll = <<>>) =>
        \A e \in InsertedOnly :
           (e \in Range(datos_proceso) /\ e.variable_name \in models) =>
               HasRecord(e.datetime, e.variable_name)

\* the variables of a batch that have a value and a model
SharedVars(rows) ==
    {v \in models : \E i \in Valued(rows) : rows[i].variable_name = v}

\* C21: when the model call of a variable fails, the cycle still has a record
\* for every (datetime, variable) of the batch whose variable has a model and
\* did not fail, and a write that succeeds appends them all; a cycle ends
\* without records only when every variable it had to score failed
C21_FailureIsPerVariable ==
    /\ [](pc = "write" =>
            /\ failed_vars \subseteq SharedVars(df_long)
            /\ failed_vars # SharedVars(df_long)
            /\ \A i \in Valued(df_long) :
                  df_long[i].variable_name \in SharedVars(df_long) \ failed_vars =>
                     RecordsOf(results_to_write, df_long[i].datetime,
                               df_long[i].variable_name) # {})
    /\ []((pc = "idle" /\ cycle_kind = "no_results") =>
            failed_vars = SharedVars(window))
    /\ [][(pc = "write" /\ pc' = "requery") =>
            anomalies_detector' = anomalies_detector \o results_to_write]_vars

\* the model call of A failed and the record of B was written
C21_Witness ==
    /\ pc = "requery"
    /\ failed_vars = {"A"}
    /\ SharedVars(df_long) = {"A", "B"}
    /\ Len(anomalies_detector) = 1
    /\ anomalies_detector[1].variable = "B"

\* the source_file a record of the model must be written with: its own when
\* it has the column, else that of the first row of its (datetime, variable)
\* when that row has one, else the literal
ExpectedSource(rows, r, literal) ==
    IF r.source_file # NoColumn THEN r.source_file
    ELSE IF FirstRowOf(rows, r.ds, r.variable).source_file # NullText
    THEN FirstRowOf(rows, r.ds, r.variable).source_file
    ELSE literal

\* C22: a record of the model without a source_file column is written with
\* the source_file of the row it comes from when that row has one and with
\* the literal otherwise, by the worker and by detect_from_sql.py; a record
\* that has the column keeps it
C22_SourceFromEvent ==
    /\ step = "attributed" => attributed = ExpectedSource(events, model_out, Unknown)
    /\ step = "attributed by batch" =>
           attributed_batch = ExpectedSource(events, model_out, BatchLiteral)

\* C23: the wide form of a batch has a row for each datetime of the batch,
\* one whose values are all null included, and for no other datetime; a cell
\* of a (datetime, variable) that no row of the batch has is null, not zero
C23_OneRowPerTimestamp ==
    step \in {"wide", "wide twice", "long"} =>
        /\ widened.index = Datetimes(events)
        /\ \A c \in widened.index \X widened.columns :
              (\A e \in Range(events) : <<e.datetime, e.variable_name>> # c) =>
                  widened.cell[c] = None

\* the rows of a long form that come from a cell
RowsOfCell(rows, c) ==
    {i \in DOMAIN rows : rows[i].datetime = c[1] /\ rows[i].variable_name = c[2]}

\* C24: the long form of a wide form has one row, with the value of the cell,
\* for each cell that has a value, no row for a cell without a value, and no
\* row of anything that is not a cell
C24_NarrowKeepsValues ==
    step = "long" =>
        /\ \A c \in widened.index \X widened.columns :
              IF widened.cell[c] = None
              THEN RowsOfCell(narrowed, c) = {}
              ELSE /\ Cardinality(RowsOfCell(narrowed, c)) = 1
                   /\ \A i \in RowsOfCell(narrowed, c) :
                         narrowed[i].value = widened.cell[c]
        /\ \A i \in DOMAIN narrowed :
              <<narrowed[i].datetime, narrowed[i].variable_name>>
                  \in widened.index \X widened.columns

\* a wide form of four cells, one of them without a value, gave three rows
C24_Witness ==
    /\ step = "long"
    /\ Cardinality(widened.index \X widened.columns) = 4
    /\ \E c \in widened.index \X widened.columns : widened.cell[c] = None
    /\ Len(narrowed) = 3

\* the table and the indexes of a script's bootstrap are all in the database
AllPresent(cat, p) ==
    /\ TableOf(p) \in cat.tables
    /\ \A n \in IndexesOf(p) : IndexExists(cat, TableOf(p), n)

\* a run that found everything in place executed no CREATE and left the
\* database as it was
NoOpWhenPresent ==
    \A i \in DOMAIN boots :
        AllPresent(boots[i].before, program) =>
            /\ boots[i].attempts = {}
            /\ boots[i].after = boots[i].before

CountersChange ==
    total_processed' # total_processed \/ total_anomalies' # total_anomalies

\* C26: between cycles total_anomalies is the number of records flagged as
\* anomalies the worker appended and total_processed the sum of the distinct
\* datetimes of the batches it appended; no step lowers a counter; a counter
\* changes only after the write of the cycle succeeded; iterations changes
\* only when a cycle begins, and then by one
C26_CountersMatchPersisted ==
    /\ [](pc \in {"idle", "stopped"} =>
             /\ total_anomalies = persisted.anomalies
             /\ total_processed = persisted.datetimes)
    /\ [][/\ total_processed' >= total_processed
          /\ total_anomalies' >= total_anomalies]_vars
    /\ [][CountersChange => pc = "requery"]_vars
    /\ [][iterations' # iterations =>
             pc = "idle" /\ iterations' = iterations + 1]_vars
    /\ [][(pc = "idle" /\ cycle_kind' # cycle_kind) =>
             iterations' = iterations + 1]_vars

\* C27: once initialize has set it, the watermark is at most the greater of
\* the watermark initialize set and the greatest datetime of the event table,
\* and a step that changes it sets it to the datetime of a row the event
\* table holds after the step
C27_WatermarkBoundedByEvents ==
    /\ [](initial_watermark # None =>
             last_processed_datetime <=
                 MaxOf({initial_watermark} \cup Datetimes(datos_proceso)))
    /\ [][(initial_watermark # None
             /\ last_processed_datetime' # last_processed_datetime) =>
             last_processed_datetime' \in Datetimes(datos_proceso')]_vars

\* a cycle moved the watermark past the one initialize set
C27_Witness ==
    /\ pc = "idle"
    /\ cycle_kind = "scored"
    /\ initial_watermark # None
    /\ last_processed_datetime > initial_watermark
    /\ last_processed_datetime > cycle_watermark
    /\ last_processed_datetime \in Datetimes(datos_proceso)

\* the model gives no record for the batch the worker is about to poll when
\* the calls of the variables in failed fail
NoRecordsFor(failed) ==
    /\ Poll # <<>>
    /\ AvailableVars(models, convert_long_to_wide(Poll)) # {}
    /\ detect_anomalies_multiple(convert_long_to_wide(Poll),
                                 AvailableVars(models, convert_long_to_wide(Poll)),
                                 failed) = <<>>

\* C28: a cycle in which the model gives no record for a batch that has rows
\* and shares a variable with the models ends without a write, with the
\* watermark and the counters as they were, and the rows of its batch are in
\* the poll of the next cycle; the result table changes only by the one
\* append of a cycle, which a cycle reaches once
C28_NoRecordsNoEffect ==
    /\ [][(pc = "process" /\ failed_vars' # {} /\ NoRecordsFor(failed_vars')) =>
             /\ pc' = "idle"
             /\ cycle_kind' = "no_results"
             /\ processed' = FALSE
             /\ UNCHANGED <<anomalies_detector, last_processed_datetime,
                            total_processed, total_anomalies>>]_vars
    /\ []((pc = "idle" /\ cycle_kind = "no_results") =>
             /\ last_processed_datetime = cycle_watermark
             /\ \A e \in Range(window) : e \in Range(Poll))
    /\ [][anomalies_detector' # anomalies_detector =>
             /\ pc = "write"
             /\ pc' = "requery"
             /\ anomalies_detector' = anomalies_detector \o results_to_write]_vars
    /\ [][(pc' = "write" /\ pc # "write") => pc = "process"]_vars
    /\ [][(pc' = "process" /\ pc # "process") =>
             pc = "idle" /\ iterations' = iterations + 1]_vars

\* the second cycle got no record for a batch, which the next poll gives again
C28_Witness ==
    /\ pc = "idle"
    /\ cycle_kind = "no_results"
    /\ iterations = 2
    /\ window # <<>>
    /\ failed_vars = SharedVars(window)
    /\ Poll = window
    /\ total_processed = 0

====
